---------------------------- MODULE Spec2Model ----------------------------
(***************************************************************************)
(* Model of src/main.py: a Telegram bot that takes a ZIP of images, asks a *)
(* vision model five questions about each image, renames the files after   *)
(* the answers and returns a report and a repackaged archive.              *)
(*                                                                         *)
(* Text is modelled as a sequence of one-character strings.  The module    *)
(* language has ASCII strings only, so a Cyrillic letter of the source is  *)
(* written as one ASCII letter (an injective encoding, upper case for      *)
(* upper case):                                                            *)
(*   a=а b=б v=в g=г d=д e=е j=ж z=з i=и y=й k=к l=л m=м n=н o=о p=п r=р  *)
(*   s=с t=т u=у f=ф c=ч w=ш q=ы x=ь h=ю ya=я                              *)
(* so 'да' is <<"d","a">> and the marker 'а.' is <<"a",".">>.              *)
(***************************************************************************)
EXTENDS Integers, Sequences, FiniteSets, TLC

(***************************************************************************)
(* Bounds of the model (not program constants).                            *)
(***************************************************************************)
\* longest archive handled by the whole handler (specification Spec)
MaxEntries == 2
\* longest archive scanned by extract_images_from_zip alone (SpecExtract)
MaxArchive == 12
\* most entries of such an archive that are not a plain valid .jpg
MaxOdd == 1
\* largest GIF frame count decoded by extract_gif_frames alone (SpecGif)
MaxFrames == 27
\* most images handed to create_renamed_zip alone (SpecZip)
MaxZipImages == 3
\* most parts the report is split into
MaxParts == 2
\* most lines of a text parsed by parse_analysis_results alone (SpecParse)
MaxLines == 2
\* most exceptions raised by the chat platform, the model client and the
\* image decoder in one run
MaxFaults == 1
\* longest text handed to split_message alone (SpecSplit)
MaxText == 5
\* largest max_length handed to split_message alone
MaxLength == 3

(***************************************************************************)
(* Program constants.                                                      *)
(***************************************************************************)
MAX_FILE_SIZE == 20 * 1024 * 1024
MAX_GIF_FRAMES == 5
MAX_IMAGES == 10
CLEAN_NAME_LEN == 20
MAIN_OBJECT_LEN == 10
BACKGROUND_COLOR_LEN == 8

(***************************************************************************)
(* Strings: the str methods the code calls.                                *)
(***************************************************************************)
Min(a, b) == IF a < b THEN a ELSE b

Max(a, b) == IF a < b THEN b ELSE a

UpperSeq ==
    <<"A","B","C","D","E","F","G","H","I","J","K","L","M","N","O","P","Q","R",
      "S","T","U","V","W","X","Y","Z">>

LowerSeq ==
    <<"a","b","c","d","e","f","g","h","i","j","k","l","m","n","o","p","q","r",
      "s","t","u","v","w","x","y","z">>

LowerChar(c) ==
    IF \E k \in 1..Len(UpperSeq) : UpperSeq[k] = c
    THEN LowerSeq[CHOOSE k \in 1..Len(UpperSeq) : UpperSeq[k] = c]
    ELSE c

\* str.lower()
Lower(s) == [k \in 1..Len(s) |-> LowerChar(s[k])]

Letters ==
    {UpperSeq[k] : k \in 1..Len(UpperSeq)} \cup {LowerSeq[k] : k \in 1..Len(LowerSeq)}
      \cup {"ya"}

Digits == {"0","1","2","3","4","5","6","7","8","9"}

\* str.isalnum() of one character
IsAlnum(c) == c \in Letters \cup Digits

\* str.isspace() of one character
IsSpace(c) == c \in {" ", "\t", "\n", "\r"}

\* s[:n]
Take(s, n) == SubSeq(s, 1, Min(n, Len(s)))

\* s[n:]
Drop(s, n) == SubSeq(s, Min(n, Len(s)) + 1, Len(s))

\* str.startswith
StartsWith(s, p) == Len(s) >= Len(p) /\ SubSeq(s, 1, Len(p)) = p

\* str.endswith
EndsWith(s, p) == Len(s) >= Len(p) /\ SubSeq(s, Len(s) - Len(p) + 1, Len(s)) = p

\* p in s
Contains(s, p) ==
    \E k \in 1..(Len(s) - Len(p) + 1) : SubSeq(s, k, k + Len(p) - 1) = p

\* str.strip()
Strip(s) ==
    LET keep == {k \in 1..Len(s) : ~IsSpace(s[k])}
    IN  IF keep = {} THEN <<>>
        ELSE SubSeq(s, CHOOSE k \in keep : \A m \in keep : k <= m,
                       CHOOSE k \in keep : \A m \in keep : m <= k)

\* str.split(sep) for a one-character separator
RECURSIVE SplitOn(_, _)
SplitOn(s, sep) ==
    LET hits == {k \in 1..Len(s) : s[k] = sep}
    IN  IF hits = {} THEN <<s>>
        ELSE LET k == CHOOSE h \in hits : \A m \in hits : h <= m
             IN  <<SubSeq(s, 1, k - 1)>> \o SplitOn(SubSeq(s, k + 1, Len(s)), sep)

\* str.split(): the maximal runs of non-whitespace characters
RECURSIVE SplitWords(_)
SplitWords(s) ==
    LET t == Strip(s)
        gaps == {k \in 1..Len(t) : IsSpace(t[k])}
    IN  IF t = <<>> THEN <<>>
        ELSE IF gaps = {} THEN <<t>>
        ELSE LET k == CHOOSE h \in gaps : \A m \in gaps : h <= m
             IN  <<SubSeq(t, 1, k - 1)>> \o SplitWords(SubSeq(t, k + 1, Len(t)))

\* os.path.splitext: the extension starts at the last dot of the last path
\* component, unless that component has only dots before it
SplitExt(p) ==
    LET seps == {k \in 1..Len(p) : p[k] = "/"}
        dots == {k \in 1..Len(p) : p[k] = "."}
        sepIndex == IF seps = {} THEN 0 ELSE CHOOSE k \in seps : \A m \in seps : m <= k
        dotIndex == IF dots = {} THEN 0 ELSE CHOOSE k \in dots : \A m \in dots : m <= k
    IN  IF dotIndex > sepIndex
           /\ \E k \in (sepIndex + 1)..(dotIndex - 1) : p[k] # "."
        THEN <<SubSeq(p, 1, dotIndex - 1), SubSeq(p, dotIndex, Len(p))>>
        ELSE <<p, <<>> >>


(***************************************************************************)
(* ImageAnalyzer.parse_analysis_results                                    *)
(***************************************************************************)
MARK_A == <<"a",".">>

MARK_B == <<"b",".">>

MARK_V == <<"v",".">>

MARK_G == <<"g",".">>

MARK_D == <<"d",".">>

S_da == <<"d","a">>

S_unknown == <<"u","n","k","n","o","w","n">>

S_people == <<"p","e","o","p","l","e">>

S_tech == <<"t","e","c","h">>

S_product == <<"p","r","o","d","u","c","t">>

\* 'люди', 'человек'
PeopleWords == { <<"l","h","d","i">>, <<"c","e","l","o","v","e","k">> }

\* 'телефон', 'компьютер', 'машина', 'автомобиль'
TechWords ==
    { <<"t","e","l","e","f","o","n">>, <<"k","o","m","p","x","h","t","e","r">>,
      <<"m","a","w","i","n","a">>, <<"a","v","t","o","m","o","b","i","l","x">> }

\* 'еда', 'продукт', 'товар', 'одежда'
ProductWords ==
    { <<"e","d","a">>, <<"p","r","o","d","u","k","t">>, <<"t","o","v","a","r">>,
      <<"o","d","e","j","d","a">> }

\* colors_map, in insertion order: белый, черный, красный, синий, зеленый,
\* желтый, серый, коричневый, розовый
colors_map ==
    << << <<"b","e","l","q","y">>, <<"w","h","i","t","e">> >>,
       << <<"c","e","r","n","q","y">>, <<"b","l","a","c","k">> >>,
       << <<"k","r","a","s","n","q","y">>, <<"r","e","d">> >>,
       << <<"s","i","n","i","y">>, <<"b","l","u","e">> >>,
       << <<"z","e","l","e","n","q","y">>, <<"g","r","e","e","n">> >>,
       << <<"j","e","l","t","q","y">>, <<"y","e","l","l","o","w">> >>,
       << <<"s","e","r","q","y">>, <<"g","r","a","y">> >>,
       << <<"k","o","r","i","c","n","e","v","q","y">>, <<"b","r","o","w","n">> >>,
       << <<"r","o","z","o","v","q","y">>, <<"p","i","n","k">> >> >>

InitialResults ==
    [realistic_photo |-> "unknown", illustration |-> "unknown",
     main_object |-> S_unknown, background_color |-> S_unknown,
     discount_message |-> "unknown"]

\* 'yes' if 'да' in line.lower() else 'no'
YesNo(line) == IF Contains(Lower(line), S_da) THEN "yes" ELSE "no"

\* the branch of a line that starts with 'в.'
MainObject(line, old) ==
    LET obj_text == Lower(Strip(Drop(line, 2)))
        words == SplitWords(obj_text)
    IN  IF \E w \in PeopleWords : Contains(obj_text, w) THEN S_people
        ELSE IF \E w \in TechWords : Contains(obj_text, w) THEN S_tech
        ELSE IF \E w \in ProductWords : Contains(obj_text, w) THEN S_product
        ELSE IF words # <<>> THEN Take(words[1], MAIN_OBJECT_LEN)
        ELSE old

\* the branch of a line that starts with 'г.'
BackgroundColor(line, old) ==
    LET color_text == Lower(Strip(Drop(line, 2)))
        words == SplitWords(color_text)
        found == {k \in 1..Len(colors_map) : Contains(color_text, colors_map[k][1])}
    IN  IF found # {}
        THEN colors_map[CHOOSE k \in found : \A m \in found : k <= m][2]
        ELSE IF words # <<>> THEN Take(words[1], BACKGROUND_COLOR_LEN)
        ELSE old

\* one turn of the loop over the lines
ParseLine(results, rawline) ==
    LET line == Strip(rawline)
    IN  IF StartsWith(line, MARK_A)
        THEN [results EXCEPT !.realistic_photo = YesNo(line)]
        ELSE IF StartsWith(line, MARK_B)
        THEN [results EXCEPT !.illustration = YesNo(line)]
        ELSE IF StartsWith(line, MARK_V)
        THEN [results EXCEPT !.main_object = MainObject(line, @)]
        ELSE IF StartsWith(line, MARK_G)
        THEN [results EXCEPT !.background_color = BackgroundColor(line, @)]
        ELSE IF StartsWith(line, MARK_D)
        THEN [results EXCEPT !.discount_message = YesNo(line)]
        ELSE results

RECURSIVE ParseLines(_, _, _)
ParseLines(lines, k, results) ==
    IF k > Len(lines) THEN results
    ELSE ParseLines(lines, k + 1, ParseLine(results, lines[k]))

parse_analysis_results(analysis_text) ==
    ParseLines(SplitOn(analysis_text, "\n"), 1, InitialResults)

(***************************************************************************)
(* ImageAnalyzer.create_new_filename                                       *)
(***************************************************************************)
IsNameChar(c) == IsAlnum(c) \/ c \in {"-", "_"}

\* "".join(c for c in name if c.isalnum() or c in ('-', '_'))[:20]
CleanNameTruncatesFirst(name) == SelectSeq(Take(name, CLEAN_NAME_LEN), IsNameChar)

CleanName(name) == Take(SelectSeq(name, IsNameChar), CLEAN_NAME_LEN)

Flag(value) == IF value = "yes" THEN <<"1">> ELSE <<"0">>

EXT_GIF == <<".","g","i","f">>

GIF_PREFIX == <<"G","I","F","-">>

GifPrefix(ext) == IF Lower(ext) = EXT_GIF THEN GIF_PREFIX ELSE <<>>

create_new_filename(original_filename, analysis_results) ==
    LET name == SplitExt(original_filename)[1]
        ext == SplitExt(original_filename)[2]
    IN  GifPrefix(ext) \o <<"R">> \o Flag(analysis_results.realistic_photo)
          \o <<"-","I">> \o Flag(analysis_results.illustration)
          \o <<"-">> \o analysis_results.main_object
          \o <<"-">> \o analysis_results.background_color
          \o <<"-","S">> \o Flag(analysis_results.discount_message)
          \o <<"_">> \o CleanName(name) \o ext

(***************************************************************************)
(* ImageAnalyzer.extract_gif_frames: the frames it selects                 *)
(***************************************************************************)
\* list(range(0, frame_count, step))
Range(stop, step) == [k \in 1..((stop + step - 1) \div step) |-> (k - 1) * step]

FrameStepCeil(frame_count) ==
    Max(1, (frame_count + MAX_GIF_FRAMES - 1) \div MAX_GIF_FRAMES)

FrameStep(frame_count) == Max(1, frame_count \div MAX_GIF_FRAMES)

SelectedFramesUncapped(frame_count) == Range(frame_count, FrameStep(frame_count))

SelectedFrames(frame_count) ==
    Take(Range(frame_count, FrameStep(frame_count)), MAX_GIF_FRAMES)


(***************************************************************************)
(* The data of one run of TelegramBot.process_zip_file                     *)
(***************************************************************************)
SUPPORTED_FORMATS ==
    { <<".","j","p","g">>, <<".","j","p","e","g">>, <<".","p","n","g">>,
      <<".","g","i","f">> }

EXT_ZIP == <<".","z","i","p">>

README_NAME ==
    <<"R","E","A","D","M","E","_","n","a","m","i","n","g","_","s","c","h","e","m",
      "e",".","t","x","t">>

\* an entry of the uploaded archive: its name, whether zip_file.read returns
\* its bytes, whether the bytes are an image PIL verifies, and the number of
\* frames PIL reports for that image
Entry(filename, readable, valid, n_frames) ==
    [filename |-> filename, readable |-> readable, valid |-> valid,
     n_frames |-> n_frames]

E_jpg == Entry(<<"a",".","j","p","g">>, TRUE, TRUE, 1)

E_JPG == Entry(<<"e",".","J","P","G">>, TRUE, TRUE, 1)

E_gif7 == Entry(<<"b",".","g","i","f">>, TRUE, TRUE, 7)

E_gif1 == Entry(<<"b",".","g","i","f">>, TRUE, TRUE, 1)

E_txt == Entry(<<"c",".","t","x","t">>, TRUE, FALSE, 1)

E_dir == Entry(<<"d","/">>, TRUE, FALSE, 1)

E_invalid == Entry(<<"a",".","j","p","g">>, TRUE, FALSE, 1)

E_unreadable == Entry(<<"a",".","j","p","g">>, FALSE, FALSE, 1)

\* ZipInfo.is_dir()
IsDir(e) == EndsWith(e.filename, <<"/">>)

\* the entries of the archives the whole handler is run on
MainEntries == {E_jpg, E_gif7, E_gif1, E_txt, E_invalid}

\* the entries, other than the plain E_jpg, of the archives the scan is run on
OddEntries == {E_JPG, E_txt, E_dir, E_invalid, E_unreadable}

Zip(corrupt, filelist) == [corrupt |-> corrupt, filelist |-> filelist]

MainZips ==
    {Zip(TRUE, <<>>)} \cup
    {Zip(FALSE, f) : f \in UNION {[1..n -> MainEntries] : n \in 0..MaxEntries}}

\* archives of up to MaxArchive entries, all E_jpg but for at most MaxOdd
ScanZips ==
    UNION { UNION { { Zip(FALSE, [k \in 1..n |-> IF k \in S THEN f[k] ELSE E_jpg]) :
                        f \in [S -> OddEntries] } :
                    S \in {T \in SUBSET (1..n) : Cardinality(T) <= MaxOdd} } :
            n \in 0..MaxArchive }

Update(has_document, file_name, file_size) ==
    [has_document |-> has_document, file_name |-> file_name, file_size |-> file_size]

N_zip == <<"a",".","z","i","p">>

N_ZIP == <<"A",".","Z","I","P">>

N_txt == <<"c",".","t","x","t">>

Updates ==
    { Update(FALSE, <<>>, 0),
      Update(TRUE, N_txt, 1),
      Update(TRUE, N_txt, MAX_FILE_SIZE + 1),
      Update(TRUE, N_zip, MAX_FILE_SIZE + 1),
      Update(TRUE, N_ZIP, MAX_FILE_SIZE) }

\* what the model may answer: 'а. да\nб. нет\nв. люди\nг. синий\nд. нет',
\* and a short answer without the requested lines
T_full ==
    <<"a","."," ","d","a","\n","b","."," ","n","e","t","\n","v","."," ","l","h",
      "d","i","\n","g","."," ","s","i","n","i","y","\n","d","."," ","n","e","t">>

T_short == <<"s","o","r","r","y"," ">>

ModelTexts == {T_full, T_short}

FrameTexts == {T_full}

\* str(e) of an exception of the model client
E_timeout == <<"t","i","m","e","o","u","t">>

\* 'Ошибка при анализе изображения: '
ERR_IMAGE ==
    <<"O","w","i","b","k","a"," ","p","r","i"," ","a","n","a","l","i","z","e"," ",
      "i","z","o","b","r","a","j","e","n","i","ya",":"," ">>

\* 'Ошибка: не удалось извлечь кадры из GIF файла'
ERR_NO_FRAMES ==
    <<"O","w","i","b","k","a",":"," ","n","e"," ","u","d","a","l","o","s","x"," ",
      "i","z","v","l","e","c","x"," ","k","a","d","r","q"," ","i","z"," ","G","I",
      "F"," ","f","a","y","l","a">>

\* 'Ошибка при анализе GIF: '
ERR_GIF ==
    <<"O","w","i","b","k","a"," ","p","r","i"," ","a","n","a","l","i","z","e"," ",
      "G","I","F",":"," ">>

DigitOf(n) == CASE n = 0 -> "0" [] n = 1 -> "1" [] n = 2 -> "2" [] n = 3 -> "3"
                [] n = 4 -> "4" [] n = 5 -> "5" [] n = 6 -> "6" [] n = 7 -> "7"
                [] n = 8 -> "8" [] n = 9 -> "9"

\* str(n) for n >= 0
RECURSIVE Decimal(_)
Decimal(n) == IF n < 10 THEN <<DigitOf(n)>> ELSE Decimal(n \div 10) \o <<DigitOf(n % 10)>>

\* f"Кадр {i+1}:\n{frame_analysis}"
FrameAnalysis(k, frame_analysis) ==
    <<"K","a","d","r"," ">> \o Decimal(k) \o <<":","\n">> \o frame_analysis


(***************************************************************************)
(* State                                                                   *)
(***************************************************************************)
VARIABLES
    pc,                   \* where the handler is
    update,               \* the incoming message's document
    zip_data,             \* the bytes of that document, as an archive
    scanPos,              \* extract_images_from_zip: place in zip_file.filelist
    readLog,              \* the places zip_file.read was called on
    images,               \* the (filename, data) pairs extracted
    i,                    \* process_zip_file: the image being analysed
    description,          \* what analyze_image returned for it
    results,              \* (filename, description)
    images_with_analysis, \* (filename, data, description)
    outstanding,          \* model requests sent and not yet answered
    requests,             \* every model request sent
    selected_frames,      \* extract_gif_frames: the frame indices chosen
    frames,               \* the frames decoded so far
    frame_analyses,       \* analyze_gif_frames: the answers per frame
    zi,                   \* create_renamed_zip: the image being written
    analysis_results,     \* its parsed analysis
    new_filename,         \* its candidate entry name
    original_new_filename,
    counter,
    used_names,
    zip_file,             \* the entries written to the new archive
    sent,                 \* the chat messages sent to the user
    raised,               \* an exception reached the handler's except clause
    parts,                \* the number of parts of the report
    part,                 \* the number of parts sent
    faults,               \* the exceptions raised so far by outside calls
    split_text,           \* split_message: its argument text
    max_length,           \* and its argument max_length
    line_no,              \* the place of its for loop in lines
    current_part,
    split_parts           \* its local list parts

scanVars == <<scanPos, readLog, images>>

loopVars == <<i, description, results, images_with_analysis>>

modelVars == <<outstanding, requests>>

gifVars == <<selected_frames, frames, frame_analyses>>

zipVars ==
    <<zi, analysis_results, new_filename, original_new_filename, counter,
      used_names, zip_file>>

chatVars == <<sent, raised, parts, part>>

splitVars == <<split_text, max_length, line_no, current_part, split_parts>>

vars ==
    <<pc, update, zip_data, scanVars, loopVars, modelVars, gifVars, zipVars, chatVars,
      faults, splitVars>>

\* an outside call may raise
MayRaise == faults < MaxFaults /\ faults' = faults + 1

NoRaise == faults' = faults

Image(filename, id, n_frames) ==
    [filename |-> filename, data |-> [id |-> id, n_frames |-> n_frames]]

Analysed(image, text) ==
    [filename |-> image.filename, data |-> image.data, description |-> text]

\* the state with the handler at p, given its message, the extracted images,
\* the analysed images and the parsed analysis
Start(p, u, z, imgs, iwa, ar) ==
    /\ pc = p
    /\ update = u
    /\ zip_data = z
    /\ scanPos = 1
    /\ readLog = <<>>
    /\ images = imgs
    /\ i = 1
    /\ description = <<>>
    /\ results = <<>>
    /\ images_with_analysis = iwa
    /\ outstanding = 0
    /\ requests = <<>>
    /\ selected_frames = <<>>
    /\ frames = <<>>
    /\ frame_analyses = <<>>
    /\ zi = 1
    /\ analysis_results = ar
    /\ new_filename = <<>>
    /\ original_new_filename = <<>>
    /\ counter = 1
    /\ used_names = {}
    /\ zip_file = <<>>
    /\ sent = <<>>
    /\ raised = FALSE
    /\ parts = 0
    /\ part = 0
    /\ faults = 0

\* split_message is not running
NoSplit ==
    /\ split_text = <<>>
    /\ max_length = 1
    /\ line_no = 1
    /\ current_part = <<>>
    /\ split_parts = <<>>

Init ==
    \E u \in Updates, z \in MainZips :
        Start("start", u, z, <<>>, <<>>, InitialResults) /\ NoSplit

(***************************************************************************)
(* TelegramBot.process_zip_file: the checks of the message                 *)
(***************************************************************************)
IsZipName(file_name) == EndsWith(Lower(file_name), EXT_ZIP)

TooBigInclusive(file_size) == file_size >= MAX_FILE_SIZE

TooBig(file_size) == file_size > MAX_FILE_SIZE

CheckDocument ==
    /\ pc = "start"
    /\ IF ~update.has_document
       THEN sent' = Append(sent, "reply_no_document") /\ pc' = "done"
       ELSE IF ~IsZipName(update.file_name)
       THEN sent' = Append(sent, "reply_not_zip") /\ pc' = "done"
       ELSE IF TooBig(update.file_size)
       THEN sent' = Append(sent, "reply_too_big") /\ pc' = "done"
       ELSE sent' = Append(sent, "processing") /\ pc' = "download"
    /\ UNCHANGED <<update, zip_data, scanVars, loopVars, modelVars, gifVars, zipVars,
                   raised, parts, part, faults, splitVars>>

\* get_file, download_as_bytearray, and the edit of the progress message
Download ==
    /\ pc = "download"
    /\ \/ pc' = "open" /\ NoRaise
       \/ pc' = "except" /\ MayRaise
    /\ UNCHANGED <<update, zip_data, scanVars, loopVars, modelVars, gifVars, zipVars,
                   chatVars, splitVars>>

(***************************************************************************)
(* TelegramBot.extract_images_from_zip                                     *)
(***************************************************************************)
LimitReachedLate(imgs) == Len(imgs) > MAX_IMAGES

LimitReached(imgs) == Len(imgs) >= MAX_IMAGES

\* os.path.splitext(filename.lower())[1] in SUPPORTED_FORMATS
Supported(filename) == SplitExt(Lower(filename))[2] \in SUPPORTED_FORMATS

OpenZip ==
    /\ pc = "open"
    /\ IF zip_data.corrupt
       THEN pc' = "except" /\ UNCHANGED scanVars
       ELSE pc' = "scan" /\ scanPos' = 1 /\ readLog' = <<>> /\ images' = <<>>
    /\ UNCHANGED <<update, zip_data, loopVars, modelVars, gifVars, zipVars, chatVars, faults, splitVars>>

ScanEntry ==
    /\ pc = "scan"
    /\ scanPos <= Len(zip_data.filelist)
    /\ LET file_info == zip_data.filelist[scanPos]
       IN  IF IsDir(file_info) \/ ~Supported(file_info.filename)
           THEN /\ scanPos' = scanPos + 1
                /\ UNCHANGED <<pc, readLog, images, splitVars>>
           ELSE /\ readLog' = Append(readLog, scanPos)
                /\ IF file_info.readable /\ file_info.valid
                   THEN /\ images' = Append(images, Image(file_info.filename, scanPos,
                                                          file_info.n_frames))
                        /\ IF LimitReached(images')
                           THEN pc' = "extracted" /\ UNCHANGED scanPos
                           ELSE pc' = pc /\ scanPos' = scanPos + 1
                   ELSE /\ scanPos' = scanPos + 1
                        /\ UNCHANGED <<pc, images, splitVars>>
    /\ UNCHANGED <<update, zip_data, loopVars, modelVars, gifVars, zipVars, chatVars, faults, splitVars>>

ScanEnd ==
    /\ pc = "scan"
    /\ scanPos > Len(zip_data.filelist)
    /\ pc' = "extracted"
    /\ UNCHANGED <<update, zip_data, scanVars, loopVars, modelVars, gifVars, zipVars,
                   chatVars, faults, splitVars>>

AfterExtract ==
    /\ pc = "extracted"
    /\ IF images = <<>>
       THEN pc' = "done" /\ UNCHANGED <<i, results, images_with_analysis, splitVars>>
       ELSE pc' = "loop" /\ i' = 1 /\ results' = <<>> /\ images_with_analysis' = <<>>
    /\ UNCHANGED <<update, zip_data, scanVars, description, modelVars, gifVars, zipVars,
                   chatVars, faults, splitVars>>

(***************************************************************************)
(* The analysis loop of process_zip_file and ImageAnalyzer.analyze_image   *)
(***************************************************************************)
IsGifName(filename) == EndsWith(Lower(filename), EXT_GIF)

Request(kind, k) == [img |-> i, kind |-> kind, k |-> k, after |-> Len(results)]

\* the top of the loop: the edit of the progress message, which may raise
LoopHead ==
    /\ pc = "loop"
    /\ i <= Len(images)
    /\ \/ pc' = "analyze" /\ NoRaise
       \/ pc' = "except" /\ MayRaise
    /\ UNCHANGED <<update, zip_data, scanVars, loopVars, modelVars, gifVars, zipVars,
                   chatVars, splitVars>>

\* analyze_image: a GIF goes to extract_gif_frames, any other image is sent
AnalyzeImage ==
    /\ pc = "analyze"
    /\ IF IsGifName(images[i].filename)
       THEN pc' = "gif_open" /\ UNCHANGED modelVars
       ELSE /\ pc' = "image_wait"
            /\ outstanding' = outstanding + 1
            /\ requests' = Append(requests, Request("image", 0))
    /\ UNCHANGED <<update, zip_data, scanVars, loopVars, gifVars, zipVars, chatVars, faults, splitVars>>

\* where analyze_image goes when the request raises: its except clause
\* returns the error string
ImageFailurePropagates(e) == [pc |-> "except", description |-> description]

ImageFailure(e) == [pc |-> "append", description |-> ERR_IMAGE \o e]

ImageResponse ==
    /\ pc = "image_wait"
    /\ outstanding' = outstanding - 1
    /\ \/ \E r \in ModelTexts : description' = Strip(r) /\ pc' = "append" /\ NoRaise
       \/ /\ description' = ImageFailure(E_timeout).description
          /\ pc' = ImageFailure(E_timeout).pc
          /\ MayRaise
    /\ UNCHANGED <<update, zip_data, scanVars, i, results, images_with_analysis, requests,
                   gifVars, zipVars, chatVars, splitVars>>

(***************************************************************************)
(* ImageAnalyzer.extract_gif_frames                                        *)
(***************************************************************************)
\* getattr(gif, 'is_animated', False): PIL's is_animated is n_frames != 1
IsAnimated(data) == data.n_frames # 1

GifOpen ==
    /\ pc = "gif_open"
    /\ \/ \* Image.open, copy or save raises: the frames found so far are returned
          /\ frames' = <<>> /\ selected_frames' = <<>> /\ pc' = "gif_extracted"
          /\ MayRaise
       \/ /\ IF ~IsAnimated(images[i].data)
             THEN frames' = <<0>> /\ selected_frames' = <<>> /\ pc' = "gif_extracted"
             ELSE /\ selected_frames' = SelectedFrames(images[i].data.n_frames)
                  /\ frames' = <<>>
                  /\ pc' = "gif_seek"
          /\ NoRaise
    /\ frame_analyses' = <<>>
    /\ UNCHANGED <<update, zip_data, scanVars, loopVars, modelVars, zipVars, chatVars, splitVars>>

\* one turn of the loop over selected_frames; seek, convert or save may raise
GifSeek ==
    /\ pc = "gif_seek"
    /\ IF Len(frames) < Len(selected_frames)
       THEN \/ /\ frames' = Append(frames, selected_frames[Len(frames) + 1])
               /\ pc' = pc
               /\ NoRaise
            \/ frames' = frames /\ pc' = "gif_extracted" /\ MayRaise
       ELSE frames' = frames /\ pc' = "gif_extracted" /\ NoRaise
    /\ UNCHANGED <<update, zip_data, scanVars, loopVars, modelVars, selected_frames,
                   frame_analyses, zipVars, chatVars, splitVars>>

(***************************************************************************)
(* ImageAnalyzer.analyze_gif_frames and combine_frame_analyses             *)
(***************************************************************************)
GifFramesDone ==
    /\ pc = "gif_extracted"
    /\ IF frames = <<>>
       THEN description' = ERR_NO_FRAMES /\ pc' = "append"
       ELSE description' = description /\ pc' = "frame_request"
    /\ frame_analyses' = <<>>
    /\ UNCHANGED <<update, zip_data, scanVars, i, results, images_with_analysis,
                   modelVars, selected_frames, frames, zipVars, chatVars, faults, splitVars>>

\* the request for the next frame or, after the last frame, the combining
\* request of combine_frame_analyses
FrameRequest ==
    /\ pc = "frame_request"
    /\ outstanding' = outstanding + 1
    /\ IF Len(frame_analyses) < Len(frames)
       THEN /\ requests' = Append(requests, Request("frame", Len(frame_analyses) + 1))
            /\ pc' = "frame_wait"
       ELSE /\ requests' = Append(requests, Request("combine", 0))
            /\ pc' = "combine_wait"
    /\ UNCHANGED <<update, zip_data, scanVars, loopVars, gifVars, zipVars, chatVars, faults, splitVars>>

FrameResponse ==
    /\ pc = "frame_wait"
    /\ outstanding' = outstanding - 1
    /\ \/ \E r \in FrameTexts :
            /\ frame_analyses' =
                 Append(frame_analyses, FrameAnalysis(Len(frame_analyses) + 1, Strip(r)))
            /\ pc' = "frame_request"
            /\ UNCHANGED description
            /\ NoRaise
       \/ /\ description' = ERR_GIF \o E_timeout
          /\ pc' = "append"
          /\ UNCHANGED frame_analyses
          /\ MayRaise
    /\ UNCHANGED <<update, zip_data, scanVars, i, results, images_with_analysis, requests,
                   selected_frames, frames, zipVars, chatVars, splitVars>>

CombineResponse ==
    /\ pc = "combine_wait"
    /\ outstanding' = outstanding - 1
    /\ \/ \E r \in ModelTexts : description' = Strip(r) /\ NoRaise
       \/ description' = frame_analyses[1] /\ MayRaise
    /\ pc' = "append"
    /\ UNCHANGED <<update, zip_data, scanVars, i, results, images_with_analysis, requests,
                   gifVars, zipVars, chatVars, splitVars>>

\* results.append, images_with_analysis.append and the sleep; the locals of
\* analyze_image are gone
AppendResult ==
    /\ pc = "append"
    /\ results' = Append(results, [filename |-> images[i].filename,
                                   description |-> description])
    /\ images_with_analysis' = Append(images_with_analysis,
                                      Analysed(images[i], description))
    /\ i' = i + 1
    /\ selected_frames' = <<>>
    /\ frames' = <<>>
    /\ frame_analyses' = <<>>
    /\ pc' = "loop"
    /\ UNCHANGED <<update, zip_data, scanVars, description, modelVars, zipVars, chatVars,
                   faults, splitVars>>

LoopEnd ==
    /\ pc = "loop"
    /\ i > Len(images)
    /\ pc' = "zip"
    /\ zi' = 1
    /\ used_names' = {}
    /\ zip_file' = <<>>
    /\ UNCHANGED <<update, zip_data, scanVars, loopVars, modelVars, gifVars,
                   analysis_results, new_filename, original_new_filename, counter,
                   chatVars, faults, splitVars>>

(***************************************************************************)
(* TelegramBot.create_renamed_zip                                          *)
(***************************************************************************)
\* f"{counter:03d}"
Pad3(n) ==
    LET d == Decimal(n)
    IN  [k \in 1..(3 - Min(3, Len(d))) |-> "0"] \o d

\* f"{name}_{counter:03d}{ext}" of the first candidate name
SuffixName(original, n) ==
    SplitExt(original)[1] \o <<"_">> \o Pad3(n) \o SplitExt(original)[2]

NameNeverTaken(name, used) == FALSE

NameTaken(name, used) == name \in used

ZipEntry(name, data) == [name |-> name, data |-> data]

NoReadme == <<>>

ReadmeEntries == <<ZipEntry(README_NAME, [id |-> 0, n_frames |-> 0])>>

ZipParse ==
    /\ pc = "zip"
    /\ zi <= Len(images_with_analysis)
    /\ analysis_results' = parse_analysis_results(images_with_analysis[zi].description)
    /\ pc' = "zip_name"
    /\ UNCHANGED <<update, zip_data, scanVars, loopVars, modelVars, gifVars, zi,
                   new_filename, original_new_filename, counter, used_names, zip_file,
                   chatVars, faults, splitVars>>

ZipName ==
    /\ pc = "zip_name"
    /\ new_filename' =
         create_new_filename(images_with_analysis[zi].filename, analysis_results)
    /\ original_new_filename' = new_filename'
    /\ counter' = 1
    /\ pc' = "zip_dedup"
    /\ UNCHANGED <<update, zip_data, scanVars, loopVars, modelVars, gifVars, zi,
                   analysis_results, used_names, zip_file, chatVars, faults, splitVars>>

\* one turn of the while loop
ZipDedup ==
    /\ pc = "zip_dedup"
    /\ NameTaken(new_filename, used_names)
    /\ new_filename' = SuffixName(original_new_filename, counter)
    /\ counter' = counter + 1
    /\ UNCHANGED <<pc, update, zip_data, scanVars, loopVars, modelVars, gifVars, zi,
                   analysis_results, original_new_filename, used_names, zip_file,
                   chatVars, faults, splitVars>>

ZipWrite ==
    /\ pc = "zip_dedup"
    /\ ~NameTaken(new_filename, used_names)
    /\ used_names' = used_names \cup {new_filename}
    /\ zip_file' = Append(zip_file, ZipEntry(new_filename, images_with_analysis[zi].data))
    /\ zi' = zi + 1
    /\ pc' = "zip"
    /\ UNCHANGED <<update, zip_data, scanVars, loopVars, modelVars, gifVars,
                   analysis_results, new_filename, original_new_filename, counter,
                   chatVars, faults, splitVars>>

ZipReadme ==
    /\ pc = "zip"
    /\ zi > Len(images_with_analysis)
    /\ zip_file' = zip_file \o ReadmeEntries
    /\ pc' = "zipped"
    /\ UNCHANGED <<update, zip_data, scanVars, loopVars, modelVars, gifVars, zi,
                   analysis_results, new_filename, original_new_filename, counter,
                   used_names, chatVars, faults, splitVars>>

(***************************************************************************)
(* process_zip_file: the report, the archive, and the except clause        *)
(***************************************************************************)
\* format_results_table and split_message: the report has one part, or the
\* parts split_message cuts a table of more than 4096 characters into
FormatReport ==
    /\ pc = "zipped"
    /\ \E np \in 1..MaxParts : parts' = np
    /\ part' = 0
    /\ pc' = "report"
    /\ UNCHANGED <<update, zip_data, scanVars, loopVars, modelVars, gifVars, zipVars,
                   sent, raised, faults, splitVars>>

SendReportPart ==
    /\ pc = "report"
    /\ part < parts
    /\ sent' = Append(sent, "report")
    /\ part' = part + 1
    /\ UNCHANGED <<pc, update, zip_data, scanVars, loopVars, modelVars, gifVars, zipVars,
                   raised, parts, faults, splitVars>>

SendReady ==
    /\ pc = "report"
    /\ part >= parts
    /\ sent' = Append(sent, "ready")
    /\ pc' = "send_document"
    /\ UNCHANGED <<update, zip_data, scanVars, loopVars, modelVars, gifVars, zipVars,
                   raised, parts, part, faults, splitVars>>

SendDocument ==
    /\ pc = "send_document"
    /\ \/ sent' = Append(sent, "document") /\ pc' = "done" /\ NoRaise
       \/ sent' = sent /\ pc' = "except" /\ MayRaise
    /\ UNCHANGED <<update, zip_data, scanVars, loopVars, modelVars, gifVars, zipVars,
                   raised, parts, part, splitVars>>

HandleException ==
    /\ pc = "except"
    /\ raised' = TRUE
    /\ sent' = Append(sent, "reply_exception")
    /\ pc' = "done"
    /\ UNCHANGED <<update, zip_data, scanVars, loopVars, modelVars, gifVars, zipVars,
                   parts, part, faults, splitVars>>

(***************************************************************************)
(* TelegramBot.split_message                                               *)
(***************************************************************************)
\* lines = text.split('\n')
SplitLines(t) == SplitOn(t, "\n")

\* the pieces the while loop appends while len(line) > max_length
RECURSIVE LongLineParts(_, _)
LongLineParts(line, m) ==
    IF Len(line) > m THEN <<Take(line, m)>> \o LongLineParts(Drop(line, m), m)
    ELSE <<>>

\* the line that loop is left with
RECURSIVE LongLineRest(_, _)
LongLineRest(line, m) ==
    IF Len(line) > m THEN LongLineRest(Drop(line, m), m) ELSE line

\* one pass of the for loop
SplitLine ==
    /\ pc = "split"
    /\ line_no <= Len(SplitLines(split_text))
    /\ LET line == SplitLines(split_text)[line_no]
       IN  IF Len(current_part \o line \o <<"\n">>) > max_length
           THEN IF current_part # <<>>
                THEN /\ split_parts' = Append(split_parts, Strip(current_part))
                     /\ current_part' = line \o <<"\n">>
                ELSE /\ split_parts' = split_parts \o LongLineParts(line, max_length)
                     /\ current_part' = LongLineRest(line, max_length) \o <<"\n">>
           ELSE /\ split_parts' = split_parts
                /\ current_part' = current_part \o line \o <<"\n">>
    /\ line_no' = line_no + 1
    /\ UNCHANGED <<pc, update, zip_data, scanVars, loopVars, modelVars, gifVars, zipVars,
                   chatVars, faults, split_text, max_length>>

\* after the loop: the last part, and the return
SplitEnd ==
    /\ pc = "split"
    /\ line_no > Len(SplitLines(split_text))
    /\ split_parts' =
          IF current_part # <<>> THEN Append(split_parts, Strip(current_part))
          ELSE split_parts
    /\ pc' = "split_done"
    /\ UNCHANGED <<update, zip_data, scanVars, loopVars, modelVars, gifVars, zipVars,
                   chatVars, faults, split_text, max_length, line_no, current_part>>

Next ==
    \/ CheckDocument \/ Download \/ OpenZip \/ ScanEntry \/ ScanEnd \/ AfterExtract
    \/ LoopHead \/ AnalyzeImage \/ ImageResponse \/ GifOpen \/ GifSeek \/ GifFramesDone
    \/ FrameRequest \/ FrameResponse \/ CombineResponse \/ AppendResult \/ LoopEnd
    \/ ZipParse \/ ZipName \/ ZipDedup \/ ZipWrite \/ ZipReadme
    \/ FormatReport \/ SendReportPart \/ SendReady \/ SendDocument \/ HandleException

Spec == Init /\ [][Next]_vars

(***************************************************************************)
(* The parts of the handler run alone, on wider inputs                     *)
(***************************************************************************)
AnyUpdate == Update(TRUE, N_zip, 1)

NoZip == Zip(FALSE, <<>>)

\* extract_images_from_zip on the archives of ScanZips
InitExtract ==
    \E z \in ScanZips : Start("open", AnyUpdate, z, <<>>, <<>>, InitialResults) /\ NoSplit

NextExtract == OpenZip \/ ScanEntry \/ ScanEnd

SpecExtract == InitExtract /\ [][NextExtract]_vars

\* extract_gif_frames on a GIF of 1..MaxFrames frames
InitGif ==
    \E n \in 1..MaxFrames :
        /\ Start("gif_open", AnyUpdate, NoZip, <<Image(<<"b",".","g","i","f">>, 1, n)>>,
                 <<>>, InitialResults)
        /\ NoSplit

NextGif == GifOpen \/ GifSeek

SpecGif == InitGif /\ [][NextGif]_vars

\* create_renamed_zip on lists of analysed images whose names collide
ZipImages ==
    { Analysed(Image(<<"a",".","j","p","g">>, 1, 1), T_full),
      Analysed(Image(<<"a",".","j","p","g">>, 2, 1), ERR_IMAGE \o E_timeout),
      Analysed(Image(<<"a","_","0","0","1",".","j","p","g">>, 3, 1), T_full),
      Analysed(Image(<<"a","!",".","j","p","g">>, 4, 1), T_full),
      Analysed(Image(<<"b",".","g","i","f">>, 5, 7), T_short) }

InitZip ==
    \E iwa \in UNION {[1..n -> ZipImages] : n \in 0..MaxZipImages} :
        Start("zip", AnyUpdate, NoZip, <<>>, iwa, InitialResults) /\ NoSplit

NextZip == ZipParse \/ ZipName \/ ZipDedup \/ ZipWrite \/ ZipReadme

SpecZip == InitZip /\ [][NextZip]_vars

\* the while loop of create_renamed_zip is not left half-way
SpecZipFair == SpecZip /\ WF_vars(ZipDedup \/ ZipWrite)

\* create_new_filename on every analysis record and on names with and
\* without directories, special characters, long stems and extensions
NameInputs ==
    { <<"a",".","j","p","g">>, <<"b",".","G","I","F">>, <<"b",".","g","i","f">>,
      <<"d","/","a"," ","b",".","p","n","g">>,
      <<"x","-","y","_","z","!","0","1","2","3","4","5","6","7","8","9","a","b","c",
        "d","e","f","g","h","i","j",".","j","p","e","g">>,
      <<"n","o","e","x","t">>, <<".","g","i","f">> }

ResultRecords ==
    [realistic_photo : {"yes", "no", "unknown"},
     illustration : {"yes", "no", "unknown"},
     main_object : {S_people, S_unknown},
     background_color : {<<"b","l","u","e">>, S_unknown},
     discount_message : {"yes", "no", "unknown"}]

InitName ==
    \E fn \in NameInputs, ar \in ResultRecords :
        /\ Start("zip_name", AnyUpdate, NoZip, <<>>, <<Analysed(Image(fn, 1, 1), <<>>)>>, ar)
        /\ NoSplit

NextName == ZipName

SpecName == InitName /\ [][NextName]_vars

\* parse_analysis_results on texts of up to MaxLines of these lines:
\* 'а. да', 'а. нет', 'а. Да, фото', ' б. нет', 'д. нет, распродажа',
\* 'д. Нет', 'д. да', 'в.', 'в. люди', 'в. Кот на диване', 'г. синий', 'г.',
\* 'привет', and the error string of a failed request
ParseLineSet ==
    { <<"a","."," ","d","a">>,
      <<"a","."," ","n","e","t">>,
      <<"a","."," ","D","a",","," ","f","o","t","o">>,
      <<" ","b","."," ","n","e","t">>,
      <<"d","."," ","n","e","t",","," ","r","a","s","p","r","o","d","a","j","a">>,
      <<"d","."," ","N","e","t">>,
      <<"d","."," ","d","a">>,
      <<"v",".">>,
      <<"v","."," ","l","h","d","i">>,
      <<"v","."," ","K","o","t"," ","n","a"," ","d","i","v","a","n","e">>,
      <<"g","."," ","s","i","n","i","y">>,
      <<"g",".">>,
      <<"p","r","i","v","e","t">>,
      ERR_IMAGE \o E_timeout }

\* '\n'.join(lines)
RECURSIVE JoinLines(_)
JoinLines(lines) ==
    IF lines = <<>> THEN <<>>
    ELSE IF Len(lines) = 1 THEN lines[1]
    ELSE lines[1] \o <<"\n">> \o JoinLines(Tail(lines))

ParseTexts ==
    {JoinLines(ls) : ls \in UNION {[1..n -> ParseLineSet] : n \in 0..MaxLines}}

InitParse ==
    \E t \in ParseTexts :
        /\ Start("zip", AnyUpdate, NoZip, <<>>,
                 <<Analysed(Image(<<"a",".","j","p","g">>, 1, 1), t)>>, InitialResults)
        /\ NoSplit

NextParse == ZipParse

SpecParse == InitParse /\ [][NextParse]_vars

\* split_message on every text of up to MaxText characters, with and
\* without line breaks and blanks, and every max_length of 1..MaxLength
SplitChars == {"a", " ", "\n"}

SplitTexts == UNION {[1..n -> SplitChars] : n \in 0..MaxText}

InitSplit ==
    \E t \in SplitTexts, m \in 1..MaxLength :
        /\ Start("split", AnyUpdate, NoZip, <<>>, <<>>, InitialResults)
        /\ split_text = t
        /\ max_length = m
        /\ line_no = 1
        /\ current_part = <<>>
        /\ split_parts = <<>>

NextSplit == SplitLine \/ SplitEnd

SpecSplit == InitSplit /\ [][NextSplit]_vars

(***************************************************************************)
(* Properties                                                              *)
(***************************************************************************)
Places(seq, x) == {k \in DOMAIN seq : seq[k] = x}

\* C1: when the archive document has been sent, every part of the report was
\* sent before it, it is the only document, and the archive holds one entry
\* per extracted image, in order, plus the single README entry; an accepted
\* run with images that ends without an exception has sent the document.
C1_ReportThenArchive ==
    LET docs == Places(sent, "document")
        reps == Places(sent, "report")
        readmes == {k \in DOMAIN zip_file : zip_file[k].name = README_NAME}
    IN  /\ Cardinality(docs) <= 1
        /\ \A d \in docs :
             /\ parts >= 1
             /\ Cardinality(reps) = parts
             /\ \A r \in reps : r < d
             /\ Len(zip_file) = Len(images) + 1
             /\ Cardinality(readmes) = 1
             /\ \A k \in 1..Len(images) : zip_file[k].data = images[k].data
        /\ (pc = "done" /\ ~raised /\ Places(sent, "processing") # {} /\ images # <<>>)
             => docs # {}

C1_Witness ==
    /\ pc = "done"
    /\ ~raised
    /\ Len(images) = 2
    /\ parts = 2
    /\ sent = <<"processing", "report", "report", "ready", "document">>

\* C2: extract_images_from_zip never holds more than 10 images and returns
\* the first 10 (or all, if fewer) entries that are no directory, have an
\* extension that is .jpg, .jpeg, .png or .gif whatever its case, can be read
\* and are valid images, in archive order; skipped entries do not count, and
\* nothing after the 10th accepted entry is read.
C2_FirstTenAccepted ==
    LET filelist == zip_data.filelist
        ok(k) == /\ filelist[k].filename[Len(filelist[k].filename)] # "/"
                 /\ Lower(SplitExt(filelist[k].filename)[2]) \in
                      { <<".","j","p","g">>, <<".","j","p","e","g">>,
                        <<".","p","n","g">>, <<".","g","i","f">> }
                 /\ filelist[k].readable
                 /\ filelist[k].valid
        accepted == {k \in DOMAIN filelist : ok(k)}
        rank(k) == Cardinality({m \in accepted : m <= k})
    IN  /\ Len(images) <= 10
        /\ pc = "extracted" =>
             /\ Len(images) = Min(10, Cardinality(accepted))
             /\ \A n \in DOMAIN images :
                  /\ images[n].data.id \in accepted
                  /\ rank(images[n].data.id) = n
                  /\ images[n].filename = filelist[images[n].data.id].filename
             /\ Len(images) = 10 =>
                  \A r \in DOMAIN readLog : readLog[r] <= images[10].data.id

C2_Witness ==
    /\ pc = "extracted"
    /\ Len(images) = 10
    /\ images[10].data.id = 11
    /\ Len(zip_data.filelist) = 12

\* C3: a message without a document, else with a name that does not end in
\* .zip whatever its case, else with a size above 20MB, gets exactly one
\* error reply, the one of the first failing check, and nothing else
\* happens; any other message, one of exactly 20MB included, is accepted.
C3_RejectsBeforeWork ==
    LET name == update.file_name
        is_zip == /\ Len(name) >= 4
                  /\ Lower(SubSeq(name, Len(name) - 3, Len(name))) = <<".","z","i","p">>
        rejected(reply) ==
            /\ sent = <<reply>>
            /\ pc = "done"
            /\ readLog = <<>> /\ images = <<>> /\ requests = <<>> /\ results = <<>>
            /\ zip_file = <<>> /\ ~raised
    IN  pc # "start" =>
          IF ~update.has_document THEN rejected("reply_no_document")
          ELSE IF ~is_zip THEN rejected("reply_not_zip")
          ELSE IF update.file_size > 20 * 1024 * 1024 THEN rejected("reply_too_big")
          ELSE sent[1] = "processing"

C3_Witness ==
    /\ pc = "done"
    /\ update.file_size = 20 * 1024 * 1024 + 1
    /\ sent = <<"reply_too_big">>

\* C4: create_new_filename gives [GIF-]R<p>-I<i>-<obj>-<color>-S<s>_<clean><ext>
\* with p, i, s 1 exactly for 'yes', clean the first 20 characters of the
\* stem without its characters other than alphanumerics, '-' and '_', ext
\* the extension unchanged, and GIF- exactly for an extension that is .gif
\* whatever its case.
C4_NameScheme ==
    LET original == images_with_analysis[1].filename
        stem == SplitExt(original)[1]
        ext == SplitExt(original)[2]
        kept == {k \in DOMAIN stem : IsAlnum(stem[k]) \/ stem[k] = "-" \/ stem[k] = "_"}
        RECURSIVE keep(_)
        keep(k) == IF k > Len(stem) THEN <<>>
                   ELSE (IF k \in kept THEN <<stem[k]>> ELSE <<>>) \o keep(k + 1)
        clean == SubSeq(keep(1), 1, Min(20, Cardinality(kept)))
        bit(v) == IF v = "yes" THEN "1" ELSE "0"
        gif == IF Lower(ext) = <<".","g","i","f">> THEN <<"G","I","F","-">> ELSE <<>>
    IN  pc = "zip_dedup" =>
          /\ new_filename =
               gif \o <<"R", bit(analysis_results.realistic_photo), "-",
                        "I", bit(analysis_results.illustration), "-">>
                   \o analysis_results.main_object \o <<"-">>
                   \o analysis_results.background_color
                   \o <<"-", "S", bit(analysis_results.discount_message), "_">>
                   \o clean \o ext
          /\ analysis_results.realistic_photo \in {"no", "unknown"}
               => new_filename[Len(gif) + 2] = "0"

C4_Witness ==
    /\ pc = "zip_dedup"
    /\ Len(SplitExt(images_with_analysis[1].filename)[1]) > 20
    /\ analysis_results.realistic_photo = "unknown"
    /\ analysis_results.discount_message = "yes"
    /\ new_filename =
         <<"R","0","-","I","0","-","p","e","o","p","l","e","-","b","l","u","e","-","S",
           "1","_","x","-","y","_","z","0","1","2","3","4","5","6","7","8","9","a","b",
           "c","d","e",".","j","p","e","g">>

\* C5: a failed analysis is a result like any other: the results follow the
\* extracted images one for one and in order, every image whose analysis
\* sent a request has its result when the handler ends or reaches its except
\* clause, after the loop there is a result per image, and the archive then
\* holds an entry for each image.
C5_FailuresAreResults ==
    /\ Len(results) = Len(images_with_analysis)
    /\ Len(results) <= Len(images)
    /\ \A k \in DOMAIN results :
         /\ results[k].filename = images[k].filename
         /\ images_with_analysis[k].filename = images[k].filename
         /\ images_with_analysis[k].data = images[k].data
         /\ images_with_analysis[k].description = results[k].description
    /\ pc \in {"except", "done"} =>
         \A r \in DOMAIN requests : requests[r].img <= Len(results)
    /\ pc \in {"zip", "zip_name", "zip_dedup", "zipped", "report", "send_document"} =>
         Len(results) = Len(images)
    /\ pc \in {"zipped", "report", "send_document"} =>
         /\ Len(zip_file) > Len(images)
         /\ \A k \in DOMAIN images : zip_file[k].data = images[k].data

C5_Witness ==
    /\ pc = "send_document"
    /\ Len(images) = 2
    /\ StartsWith(results[1].description, ERR_IMAGE)
    /\ results[2].description = T_full
    /\ zip_file[1].data = images[1].data

\* C6: at most one model request is outstanding; a request for an image is
\* sent only when all the images before it have their results; no request is
\* sent twice; an image that is no GIF gets exactly one request, a GIF at
\* most 5 frame requests and then at most one combining request; so an
\* archive of at most 10 images causes at most 60 requests.
C6_SequentialRequests ==
    LET of(j, kind) ==
            {r \in DOMAIN requests : requests[r].img = j /\ requests[r].kind = kind}
        is_gif(j) ==
            Lower(SplitExt(images[j].filename)[2]) = <<".","g","i","f">>
    IN  /\ outstanding \in {0, 1}
        /\ \A r \in DOMAIN requests :
             /\ requests[r].img \in DOMAIN images
             /\ requests[r].after = requests[r].img - 1
        /\ \A a, b \in DOMAIN requests :
             (a < b) =>
               /\ requests[a].img <= requests[b].img
               /\ <<requests[a].img, requests[a].kind, requests[a].k>>
                    # <<requests[b].img, requests[b].kind, requests[b].k>>
        /\ \A j \in DOMAIN images :
             IF is_gif(j)
             THEN /\ of(j, "image") = {}
                  /\ Cardinality(of(j, "frame")) <= 5
                  /\ Cardinality(of(j, "combine")) <= 1
                  /\ \A c \in of(j, "combine"), f \in of(j, "frame") : f < c
             ELSE /\ of(j, "frame") = {} /\ of(j, "combine") = {}
                  /\ Cardinality(of(j, "image")) <= 1
                  /\ j <= Len(results) => Cardinality(of(j, "image")) = 1
        /\ Len(images) <= 10
        /\ Len(requests) <= 6 * Len(images)
        /\ Len(requests) <= 60

C6_Witness ==
    /\ pc = "done"
    /\ Len(images) = 2
    /\ Len(requests) = 7
    /\ requests[6].kind = "combine"
    /\ requests[7].kind = "image"

\* C7: for a GIF of n frames the selection has at most 5 indices, starts at
\* 0, is strictly increasing with the constant step max(1, n div 5), stays
\* below n, and is every frame when n <= 5; the frames decoded are a prefix
\* of it.
C7_FrameSelection ==
    LET n == images[1].data.n_frames
        sel == selected_frames
        step == IF n \div 5 > 1 THEN n \div 5 ELSE 1
    IN  /\ pc = "gif_seek" =>
             /\ Len(sel) >= 1
             /\ Len(sel) <= 5
             /\ sel[1] = 0
             /\ \A k \in DOMAIN sel : sel[k] < n
             /\ \A k \in 1..(Len(sel) - 1) :
                  sel[k] < sel[k + 1] /\ sel[k + 1] - sel[k] = step
             /\ n <= 5 => Len(sel) = n
             /\ Len(frames) <= Len(sel)
             /\ \A k \in DOMAIN frames : frames[k] = sel[k]
        /\ Len(frames) <= 5
        /\ n = 1 => frames \in {<<>>, <<0>>}

C7_Witness ==
    /\ pc = "gif_extracted"
    /\ images[1].data.n_frames = 12
    /\ frames = <<0, 2, 4, 6, 8>>

\* C8: the distance from the last selected frame to the last frame of the
\* animation is smaller than the step between selected frames.
C8_EvenSpread ==
    pc = "gif_seek" /\ Len(selected_frames) >= 2 =>
        (images[1].data.n_frames - 1) - selected_frames[Len(selected_frames)]
          < selected_frames[2] - selected_frames[1]

\* C9: the entry names of the archive are pairwise distinct, the README
\* included; a candidate already used is replaced by the first candidate
\* with _NNN before its extension, NNN counting from 001, the search has
\* tried no more suffixes than there are used names, and it ends.
C9_Names ==
    LET stem == SplitExt(original_new_filename)[1]
        ext == SplitExt(original_new_filename)[2]
    IN  /\ \A a, b \in DOMAIN zip_file : a # b => zip_file[a].name # zip_file[b].name
        /\ pc \in {"zip", "zip_name", "zip_dedup"} =>
             used_names = {zip_file[k].name : k \in DOMAIN zip_file}
        /\ pc = "zip_dedup" =>
             /\ counter - 1 <= Cardinality(used_names)
             /\ counter <= 10
             /\ new_filename =
                  IF counter = 1 THEN original_new_filename
                  ELSE stem \o <<"_", "0", "0", DigitOf(counter - 1)>> \o ext

\* C9: the names stay distinct and well-formed in every state, and every
\* search for an unused name, once begun, ends with the entry written.
C9_DistinctNames == [] C9_Names /\ ((pc = "zip_dedup") ~> (pc = "zip"))

C9_Witness ==
    /\ pc = "zipped"
    /\ Len(zip_file) = 4
    /\ \E k \in DOMAIN zip_file :
         EndsWith(zip_file[k].name, <<"_","0","0","2",".","j","p","g">>)

\* C10: parse_analysis_results returns the five fields; a field is 'unknown'
\* exactly when no stripped line starts with its marker; for the markers
\* а., б. and д. the field is 'yes' when the answer on the line is 'да' and
\* 'no' when it is 'нет', whatever follows; so an error string gives five
\* times 'unknown'.
C10_ParsedFields ==
    LET text == images_with_analysis[1].description
        lines == SplitOn(text, "\n")
        marked(m) == {k \in DOMAIN lines : StartsWith(Strip(lines[k]), m)}
        last(m) == Strip(lines[CHOOSE k \in marked(m) : \A j \in marked(m) : j <= k])
        word(m) == SplitWords(Lower(Drop(last(m), 2)))
        answer(m) ==
            IF word(m) = <<>> THEN <<>>
            ELSE IF word(m)[1][Len(word(m)[1])] \in {",", ".", "!"}
            THEN SubSeq(word(m)[1], 1, Len(word(m)[1]) - 1)
            ELSE word(m)[1]
        yesno(m, v) ==
            /\ (v = "unknown") <=> (marked(m) = {})
            /\ (marked(m) # {} /\ answer(m) = <<"d","a">>) => v = "yes"
            /\ (marked(m) # {} /\ answer(m) = <<"n","e","t">>) => v = "no"
    IN  pc = "zip_name" =>
          /\ DOMAIN analysis_results =
               {"realistic_photo", "illustration", "main_object", "background_color",
                "discount_message"}
          /\ yesno(<<"a",".">>, analysis_results.realistic_photo)
          /\ yesno(<<"b",".">>, analysis_results.illustration)
          /\ yesno(<<"d",".">>, analysis_results.discount_message)
          /\ (analysis_results.main_object = S_unknown) <=> (marked(<<"v",".">>) = {})
          /\ (analysis_results.background_color = S_unknown) <=> (marked(<<"g",".">>) = {})
          /\ StartsWith(text, <<"O","w","i","b","k","a">>) /\ Len(lines) = 1 =>
               analysis_results = InitialResults

\* C11: every part split_message has appended is at most max_length
\* characters long, wherever the long line stands in the text
C11_PartsWithinLimit ==
    \A k \in DOMAIN split_parts : Len(split_parts[k]) <= max_length

\* C11, the case that holds: while no part has been cut off in front of a
\* line longer than max_length, every part fits
C11_LongLineAfterPart ==
    \E k \in 1..(line_no - 1) :
        /\ k <= Len(SplitLines(split_text))
        /\ k > 1
        /\ Len(SplitLines(split_text)[k]) > max_length

C11_FirstLineOnly == C11_LongLineAfterPart \/ C11_PartsWithinLimit

\* C11: a first line longer than max_length has been cut into pieces
C11_Witness ==
    /\ pc = "split_done"
    /\ Len(SplitLines(split_text)[1]) > max_length
    /\ Len(split_parts) >= 2
    /\ C11_PartsWithinLimit

=============================================================================
